---- MODULE Spec2Model ----
(***************************************************************************)
(* A model of food.py: the SQLite review store (init_db, save_review,      *)
(* get_reviews, delete_review, delete_all_reviews), the voice pipeline     *)
(* (transcribe_audio, translate, clean_review) and the Streamlit script    *)
(* that is re-run from its first line on every UI event.                   *)
(*                                                                         *)
(* A table row is a function from the table's column names to values.      *)
(* TEXT values produced by the program are sequences of tokens, so that    *)
(* the output of a remote call names the call and its input.               *)
(***************************************************************************)
EXTENDS Integers, Sequences, FiniteSets, TLC

VARIABLES
    columns,            \* reviews.db: column names of table reviews, <<>> = no table
    reviews,            \* reviews.db: the rows of table reviews
    seq,                \* reviews.db: sqlite_sequence entry of table reviews
    call,               \* the store call of the last step (in a script run: the
                        \* call that writes) and what it returned
    history,            \* ids assigned by save_review so far, in call order
    rating,             \* st.session_state.rating
    audio,              \* value of the st.audio_input widget
    clips,              \* number of clips recorded so far in the session
    last_audio,         \* st.session_state.last_audio
    confirm_delete_all, \* st.session_state.confirm_delete_all
    password_entered,   \* st.session_state.password_entered
    delete_password,    \* value of the text_input with key delete_password
    del_flags,          \* ids rid whose st.session_state["del_<rid>"] is True
    common_issues,      \* st.session_state.common_issues
    pc,                 \* position of the script inside the voice pipeline
    raw,                \* local raw of the voice section
    english,            \* local english of the voice section
    telugu,             \* local telugu of the voice section
    ai_review,          \* local ai_review of the voice section
    rerun,              \* a script run is pending (first load or st.rerun())
    page,               \* how far the last finished script run rendered
    flow_ok,            \* a Verify click with the secret happened in the open flow
    remote,             \* remote calls issued by the current script run, in order
    processed,          \* the clips save_review was called for, in call order
    failed,             \* the clips whose processing ended in a failed remote call
    shown               \* ids of the reviews the page lists with their buttons

storeVars == <<columns, reviews, seq, call, history>>
sessionVars == <<rating, audio, clips, last_audio, confirm_delete_all,
                 password_entered, delete_password, del_flags, common_issues>>
scriptVars == <<pc, raw, english, telugu, ai_review, rerun, page, flow_ok,
                processed, failed, shown>>
vars == <<columns, reviews, seq, call, history, rating, audio, clips,
          last_audio, confirm_delete_all, password_entered, delete_password,
          del_flags, common_issues, pc, raw, english, telugu, ai_review,
          rerun, page, flow_ok, remote, processed, failed, shown>>

----
\* Bounds

\* ids handed out when the store functions are called directly
MaxId == 3
\* clips recorded in one session
MaxClips == 2

----
\* Values

\* Python None
None == "None"
\* SQL NULL in a TEXT column
Null == <<"NULL">>
\* a local or a session key that holds no text yet
NoText == <<>>
\* audio widget without a recording; a recording is the number of its clip
NoAudio == 0
\* "last_audio" not in st.session_state
NoLastAudio == 0

Range(s) == {s[i] : i \in 1..Len(s)}

Max(a, b) == IF a >= b THEN a ELSE b

\* rating buttons of which one sets a value spelt with a space
RatingsMisspelt == {"tasty", "okay", "not tasty"}

\* the three rating values of the rating buttons
Ratings == {"tasty", "okay", "not_tasty"}

\* the columns of table reviews that save_review and get_reviews name
AllColumns == <<"id", "rating", "english_text", "telugu_text", "ai_review", "timestamp">>

\* values datetime.now() can take, formatted by strftime: the program runs
\* after the earlier revision wrote its rows at 1
Clock == {2}
Strftime(t) == <<"at", t>>

----
\* The store

\* CREATE TABLE IF NOT EXISTS reviews (id ..., rating TEXT)
CreateTableIfNotExists(cols) ==
    IF cols = <<>> THEN <<"id", "rating">> ELSE cols

\* a duplicate-prone ALTER: adds the column without looking at table_info
AlterAlways(info, cols, c) == Append(cols, c)

\* if "<c>" not in cols: ALTER TABLE reviews ADD COLUMN <c> TEXT
AlterIfMissing(info, cols, c) ==
    IF c \notin Range(info) THEN Append(cols, c) ELSE cols

\* the schema init_db leaves behind
InitDbColumns(cols) ==
    LET created == CreateTableIfNotExists(cols)
        info == created
        c1 == AlterIfMissing(info, created, "english_text")
        c2 == AlterIfMissing(info, c1, "telugu_text")
        c3 == AlterIfMissing(info, c2, "ai_review")
    IN  AlterIfMissing(info, c3, "timestamp")

\* a migration that also resets the timestamp of the rows it passes over
MigrateRowRestamp(row, cols) ==
    [c \in Range(cols) |->
        IF c \in DOMAIN row /\ c # "timestamp" THEN row[c] ELSE Null]

\* ADD COLUMN gives every existing row NULL in the new column
MigrateRow(row, cols) ==
    [c \in Range(cols) |-> IF c \in DOMAIN row THEN row[c] ELSE Null]

Ids(rows) == {r["id"] : r \in rows}

RECURSIVE MaxOf(_)
MaxOf(S) ==
    IF S = {} THEN 0
    ELSE LET x == CHOOSE y \in S : TRUE
         IN  Max(x, MaxOf(S \ {x}))

\* rowid of a plain INTEGER PRIMARY KEY: ids of deleted rows come back
NextRowidReuse(rows, s) == MaxOf(Ids(rows)) + 1

\* rowid of an INTEGER PRIMARY KEY AUTOINCREMENT
NextRowid(rows, s) == Max(s, MaxOf(Ids(rows))) + 1

\* an INSERT whose VALUES list has english and telugu in each other's place
NewRowSwapped(cols, id, r, e, t, a, ts) ==
    [c \in Range(cols) |->
        CASE c = "id" -> id
          [] c = "rating" -> r
          [] c = "english_text" -> t
          [] c = "telugu_text" -> e
          [] c = "ai_review" -> a
          [] c = "timestamp" -> ts
          [] OTHER -> Null]

\* the row INSERT INTO reviews (rating, english_text, ...) creates
NewRow(cols, id, r, e, t, a, ts) ==
    [c \in Range(cols) |->
        CASE c = "id" -> id
          [] c = "rating" -> r
          [] c = "english_text" -> e
          [] c = "telugu_text" -> t
          [] c = "ai_review" -> a
          [] c = "timestamp" -> ts
          [] OTHER -> Null]

InsertColumns == {"rating", "english_text", "telugu_text", "ai_review", "timestamp"}

\* SELECT id, rating, english_text, telugu_text, ai_review, timestamp
SelectRow(r) ==
    <<r["id"], r["rating"], r["english_text"], r["telugu_text"],
      r["ai_review"], r["timestamp"]>>

\* ORDER BY id ASC
RECURSIVE OrderByIdAsc(_)
OrderByIdAsc(rows) ==
    IF rows = {} THEN <<>>
    ELSE LET m == CHOOSE r \in rows : \A q \in rows : r["id"] <= q["id"]
         IN  <<m>> \o OrderByIdAsc(rows \ {m})

\* ORDER BY id DESC
RECURSIVE OrderByIdDesc(_)
OrderByIdDesc(rows) ==
    IF rows = {} THEN <<>>
    ELSE LET m == CHOOSE r \in rows : \A q \in rows : q["id"] <= r["id"]
         IN  <<m>> \o OrderByIdDesc(rows \ {m})

\* what get_reviews returns
GetReviews(rows) ==
    LET ordered == OrderByIdDesc(rows)
    IN  [i \in 1..Len(ordered) |-> SelectRow(ordered[i])]

\* a DELETE whose WHERE keeps only the named row
DeleteOthers(rows, review_id) == {r \in rows : r["id"] = review_id}

\* DELETE FROM reviews WHERE id = ?
DeleteWhereId(rows, review_id) == {r \in rows : r["id"] # review_id}

\* DELETE FROM reviews
DeleteAll(rows) == {}

\* A call record: ret is the tuple of values handed back to the caller,
\* <<>> for a function that returns None.
NoCall == [fn |-> "none", args |-> <<>>, ret |-> <<>>, raised |-> FALSE]

Raised(fn, args) == [fn |-> fn, args |-> args, ret |-> <<>>, raised |-> TRUE]

Returned(fn, args, ret) == [fn |-> fn, args |-> args, ret |-> ret, raised |-> FALSE]

----
\* The store functions, as steps on the database file

\* init_db()
InitDbStep ==
    /\ columns' = InitDbColumns(columns)
    /\ reviews' = {MigrateRow(r, columns') : r \in reviews}
    /\ seq' = seq

\* a save_review that ends in "return cursor.lastrowid"
SaveReviewLastRowid(id) == <<id>>

\* save_review has no return statement
SaveReviewResult(id) == <<>>

\* save_review(rating, english, telugu, ai_review)
SaveReviewStep(r, e, t, a) ==
    \E now \in Clock :
        IF InsertColumns \subseteq Range(columns)
        THEN LET id == NextRowid(reviews, seq)
             IN  /\ reviews' = reviews \cup
                        {NewRow(columns, id, r, e, t, a, Strftime(now))}
                 /\ seq' = id
                 /\ history' = Append(history, id)
                 /\ call' = Returned("save_review", <<r, e, t, a>>,
                                     SaveReviewResult(id))
                 /\ columns' = columns
        ELSE /\ call' = Raised("save_review", <<r, e, t, a>>)
             /\ UNCHANGED <<columns, reviews, seq, history>>

\* get_reviews()
GetReviewsStep ==
    /\ IF Range(AllColumns) \subseteq Range(columns)
       THEN call' = Returned("get_reviews", <<>>, <<GetReviews(reviews)>>)
       ELSE call' = Raised("get_reviews", <<>>)
    /\ UNCHANGED <<columns, reviews, seq, history>>

\* delete_review(review_id)
DeleteReviewStep(review_id) ==
    IF columns # <<>>
    THEN /\ reviews' = DeleteWhereId(reviews, review_id)
         /\ call' = Returned("delete_review", <<review_id>>, <<>>)
         /\ UNCHANGED <<columns, seq, history>>
    ELSE /\ call' = Raised("delete_review", <<review_id>>)
         /\ UNCHANGED <<columns, reviews, seq, history>>

\* delete_all_reviews()
DeleteAllReviewsStep ==
    IF columns # <<>>
    THEN /\ reviews' = DeleteAll(reviews)
         /\ call' = Returned("delete_all_reviews", <<>>, <<>>)
         /\ UNCHANGED <<columns, seq, history>>
    ELSE /\ call' = Raised("delete_all_reviews", <<>>)
         /\ UNCHANGED <<columns, reviews, seq, history>>

----
\* The database file the program finds when it starts

\* the schema of an earlier revision: id, rating and some of the later columns
LegacySchema(S) ==
    LET Keep(c) == c \in {"id", "rating"} \cup S
    IN  SelectSeq(AllColumns, Keep)

LegacySchemas == {LegacySchema(S) : S \in SUBSET InsertColumns}

\* a row that revision wrote
LegacyRow(cols) ==
    NewRow(cols, 1, "tasty", <<"old", "en">>, <<"old", "te">>, <<"old", "ai">>,
           Strftime(1))

InitStore ==
    /\ columns \in {<<>>} \cup LegacySchemas
    /\ reviews \in IF columns = <<>> THEN {{}} ELSE {{}, {LegacyRow(columns)}}
    /\ seq = MaxOf(Ids(reviews))
    /\ call = NoCall
    /\ history = <<>>

InitSession ==
    /\ rating = None
    /\ audio = NoAudio
    /\ clips = 0
    /\ last_audio = NoLastAudio
    /\ confirm_delete_all = FALSE
    /\ password_entered = FALSE
    /\ delete_password = ""
    /\ del_flags = {}
    /\ common_issues = NoText
    /\ pc = "idle"
    /\ raw = NoText
    /\ english = NoText
    /\ telugu = NoText
    /\ ai_review = NoText
    /\ rerun = TRUE
    /\ page = "blank"
    /\ flow_ok = FALSE
    /\ remote = <<>>
    /\ processed = <<>>
    /\ failed = {}
    /\ shown = {}

----
\* The remote calls; a response names the call and its input

\* transcribe_audio(audio)
Transcribe(clip) == <<"speech", clip>>

\* translate(text, language)
Translate(text, language) == <<language>> \o text

\* clean_review(english_text)
CleanReview(english_text) == <<"polite">> \o english_text

\* the chat response analyze_common_issues returns
Summary == <<"summary">>

NoReviews == <<"No reviews available for analysis.">>

NoReviewText == <<"No review text available for analysis.">>

Remote(fn, args, ok) == [fn |-> fn, args |-> args, ok |-> ok]

\* a test that takes the empty string for a review text
TruthyNotNull(text) == text # Null

\* if r[2]
Truthy(text) == text \notin {Null, <<>>}

\* the reviews analyze_common_issues joins into all_reviews
AllReviews(reviews_data) ==
    LET HasText(r) == Truthy(r[3])
        kept == SelectSeq(reviews_data, HasText)
    IN  [i \in 1..Len(kept) |-> <<kept[i][2], kept[i][3]>>]

\* the chat call of analyze_common_issues(reviews_data), if it makes one
AnalyzeCalls(reviews_data, ok) ==
    IF reviews_data = <<>> \/ AllReviews(reviews_data) = <<>>
    THEN <<>>
    ELSE <<Remote("chat", <<AllReviews(reviews_data)>>, ok)>>

\* what analyze_common_issues(reviews_data) returns when it returns
AnalyzeReturn(reviews_data) ==
    IF reviews_data = <<>> THEN NoReviews
    ELSE IF AllReviews(reviews_data) = <<>> THEN NoReviewText
    ELSE Summary

----
\* The store functions and analyze_common_issues called directly, in any
\* order and with any arguments

ArgRatings == {"tasty", "spicy"}
ArgEnglish == {<<"en">>, <<>>}
ArgTelugu == {<<"te">>}
ArgPolished == {<<"ai">>}

ApiInitDb ==
    /\ InitDbStep
    /\ call' = Returned("init_db", <<>>, <<>>)
    /\ remote' = <<>>
    /\ UNCHANGED <<history, sessionVars, scriptVars>>

ApiSaveReview ==
    /\ seq < MaxId
    /\ \E r \in ArgRatings, e \in ArgEnglish, t \in ArgTelugu, a \in ArgPolished :
           SaveReviewStep(r, e, t, a)
    /\ remote' = <<>>
    /\ UNCHANGED <<sessionVars, scriptVars>>

ApiGetReviews ==
    /\ GetReviewsStep
    /\ remote' = <<>>
    /\ UNCHANGED <<sessionVars, scriptVars>>

ApiDeleteReview ==
    /\ \E review_id \in 1..MaxId : DeleteReviewStep(review_id)
    /\ remote' = <<>>
    /\ UNCHANGED <<sessionVars, scriptVars>>

ApiDeleteAllReviews ==
    /\ DeleteAllReviewsStep
    /\ remote' = <<>>
    /\ UNCHANGED <<sessionVars, scriptVars>>

\* analyze_common_issues(get_reviews())
ApiAnalyzeCommonIssues ==
    /\ Range(AllColumns) \subseteq Range(columns)
    /\ LET reviews_data == GetReviews(reviews)
       IN  \E ok \in BOOLEAN :
               /\ remote' = AnalyzeCalls(reviews_data, ok)
               /\ call' = IF remote' = <<>> \/ ok
                          THEN Returned("analyze_common_issues",
                                        <<reviews_data>>,
                                        <<AnalyzeReturn(reviews_data)>>)
                          ELSE Raised("analyze_common_issues",
                                      <<reviews_data>>)
    /\ UNCHANGED <<columns, reviews, seq, history, sessionVars, scriptVars>>

StoreInit == InitStore /\ InitSession

StoreNext ==
    \/ ApiInitDb
    \/ ApiSaveReview
    \/ ApiGetReviews
    \/ ApiDeleteReview
    \/ ApiDeleteAllReviews
    \/ ApiAnalyzeCommonIssues

StoreSpec == StoreInit /\ [][StoreNext]_vars

----
\* The script: one action per UI event runs the script from its first line

\* a comparison that strips the input first
PasswordOkStripped(password) == password \in {"121212", "121212 "}

\* password == "121212"
PasswordOk(password) == password = "121212"

\* what a user may type into the password field
Passwords == {"121212", "121212 "}

locals == <<raw, english, telugu, ai_review>>

\* the rows after the init_db() call at the top of the script
Migrated == {MigrateRow(r, InitDbColumns(columns)) : r \in reviews}

\* the widgets the last finished run put on the page
DeleteAllRendered == page \in {"full", "analyze"}
PromptRendered == DeleteAllRendered /\ confirm_delete_all /\ ~password_entered
ConfirmRendered == DeleteAllRendered /\ confirm_delete_all /\ password_entered
ListRendered == page = "full"

\* the page is up and the script is not running
Ready == pc = "idle" /\ ~rerun

\* the reviews a run lists when it reaches the end of the script
Shown ==
    shown' = IF page' = "full" /\ ~rerun' /\ pc' = "idle"
             THEN Ids(reviews') ELSE {}

\* a text_input that a finished run did not render loses its value
KeptPassword(confirm, entered, text) ==
    IF confirm /\ ~entered THEN text ELSE ""

\* a voice section without the comparison with last_audio
StartsPipelineAlways(clip) == clip # NoAudio /\ rating # None

\* if audio and rating: if "last_audio" not in session_state or audio != last_audio
StartsPipeline(clip) ==
    /\ clip # NoAudio
    /\ rating # None
    /\ (last_audio = NoLastAudio \/ clip # last_audio)

\* the script's globals do not outlive the run
EndOfRun ==
    /\ raw' = NoText
    /\ english' = NoText
    /\ telugu' = NoText
    /\ ai_review' = NoText
    /\ remote' = <<>>

\* a voice section that does not remember the clip it processes
BeginPipelineNoMark(clip) ==
    /\ pc' = "transcribe"
    /\ page' = "voice"
    /\ remote' = <<>>
    /\ reviews' = Migrated
    /\ call' = NoCall
    /\ rerun' = FALSE
    /\ UNCHANGED <<failed, processed, history, rating, last_audio,
                   confirm_delete_all, password_entered, delete_password,
                   del_flags, common_issues, locals>>

\* st.session_state.last_audio = audio, then the spinner block is entered
BeginPipeline(clip) ==
    /\ last_audio' = clip
    /\ pc' = "transcribe"
    /\ page' = "voice"
    /\ remote' = <<>>
    /\ reviews' = Migrated
    /\ call' = NoCall
    /\ rerun' = FALSE
    /\ UNCHANGED <<failed, processed, history, rating, confirm_delete_all, password_entered,
                   delete_password, del_flags, common_issues, locals>>

\* first load of the page, or the run that st.rerun() asked for
Rerun ==
    /\ rerun
    /\ pc = "idle"
    /\ columns' = InitDbColumns(columns)
    /\ IF StartsPipeline(audio)
       THEN BeginPipeline(audio)
       ELSE /\ reviews' = Migrated
            /\ call' = NoCall
            /\ page' = "full"
            /\ rerun' = FALSE
            /\ remote' = <<>>
            /\ delete_password' =
                   KeptPassword(confirm_delete_all, password_entered,
                                delete_password)
            /\ UNCHANGED <<failed, processed, history, rating, last_audio, confirm_delete_all,
                           password_entered, del_flags, common_issues, pc,
                           locals>>
    /\ UNCHANGED <<seq, audio, clips, flow_ok>>
    /\ Shown

\* one of the three rating buttons is pressed
RateClick ==
    /\ Ready
    /\ \E r \in Ratings : rating' = r
    /\ columns' = InitDbColumns(columns)
    /\ reviews' = Migrated
    /\ call' = NoCall
    /\ rerun' = TRUE
    /\ remote' = <<>>
    /\ UNCHANGED <<failed, processed, seq, history, audio, clips, last_audio,
                   confirm_delete_all, password_entered, delete_password,
                   del_flags, common_issues, pc, locals, page, flow_ok>>
    /\ Shown

\* the script run that follows a change of the audio widget to clip
AudioRun(clip) ==
    /\ columns' = InitDbColumns(columns)
    /\ IF StartsPipeline(clip)
       THEN BeginPipeline(clip)
       ELSE /\ reviews' = Migrated
            /\ call' = NoCall
            /\ page' = "full"
            /\ rerun' = FALSE
            /\ remote' = <<>>
            /\ delete_password' =
                   KeptPassword(confirm_delete_all, password_entered,
                                delete_password)
            /\ UNCHANGED <<failed, processed, history, rating, last_audio, confirm_delete_all,
                           password_entered, del_flags, common_issues, pc,
                           locals>>
    /\ UNCHANGED <<seq, flow_ok>>
    /\ Shown

\* the user records a clip
Record ==
    /\ Ready
    /\ clips < MaxClips
    /\ clips' = clips + 1
    /\ audio' = clips + 1
    /\ AudioRun(clips + 1)

\* the user removes the recording from the audio widget
ClearAudio ==
    /\ Ready
    /\ audio # NoAudio
    /\ audio' = NoAudio
    /\ clips' = clips
    /\ AudioRun(NoAudio)

\* the remote call the spinner block makes at position at
CallAt(at, clip, r, e) ==
    CASE at = "transcribe" -> Remote("transcribe_audio", <<clip>>, TRUE)
      [] at = "translate_en" -> Remote("translate", <<r, "English">>, TRUE)
      [] at = "translate_te" -> Remote("translate", <<r, "Telugu">>, TRUE)
      [] at = "polish" -> Remote("clean_review", <<e>>, TRUE)

\* a spinner block that polishes the transcript instead of the translation
AssignedPolishRaw(at, clip, r, e) ==
    CASE at = "transcribe" -> Transcribe(clip)
      [] at = "translate_en" -> Translate(r, "English")
      [] at = "translate_te" -> Translate(r, "Telugu")
      [] at = "polish" -> CleanReview(r)

\* the value the line at position at assigns, from audio, raw and english
Assigned(at, clip, r, e) ==
    CASE at = "transcribe" -> Transcribe(clip)
      [] at = "translate_en" -> Translate(r, "English")
      [] at = "translate_te" -> Translate(r, "Telugu")
      [] at = "polish" -> CleanReview(e)

\* a spinner block that translates to Telugu first
AfterTeluguFirst(at) ==
    CASE at = "transcribe" -> "translate_te"
      [] at = "translate_te" -> "translate_en"
      [] at = "translate_en" -> "polish"
      [] at = "polish" -> "save"

\* the line of the spinner block that follows position at
After(at) ==
    CASE at = "transcribe" -> "translate_en"
      [] at = "translate_en" -> "translate_te"
      [] at = "translate_te" -> "polish"
      [] at = "polish" -> "save"

Calling == {"transcribe", "translate_en", "translate_te", "polish"}

\* a remote call of the spinner block returns
PipelineCall ==
    /\ pc \in Calling
    /\ remote' = Append(remote, CallAt(pc, audio, raw, english))
    /\ LET value == Assigned(pc, audio, raw, english)
       IN  /\ raw' = IF pc = "transcribe" THEN value ELSE raw
           /\ english' = IF pc = "translate_en" THEN value ELSE english
           /\ telugu' = IF pc = "translate_te" THEN value ELSE telugu
           /\ ai_review' = IF pc = "polish" THEN value ELSE ai_review
    /\ pc' = After(pc)
    /\ call' = NoCall
    /\ UNCHANGED <<failed, processed, columns, reviews, seq, history, rating, audio, clips,
                   last_audio, confirm_delete_all, password_entered,
                   delete_password, del_flags, common_issues, rerun, page,
                   flow_ok>>
    /\ Shown

\* an except clause that swallows the failure and goes on with the next line
PipelineFailSwallowed ==
    /\ pc \in Calling
    /\ pc' = After(pc)
    /\ call' = NoCall
    /\ UNCHANGED <<failed, processed, columns, reviews, seq, history, rating, audio, clips,
                   last_audio, confirm_delete_all, password_entered,
                   delete_password, del_flags, common_issues, rerun, page,
                   flow_ok, locals, remote>>
    /\ Shown

\* a remote call of the spinner block raises: the run ends there
PipelineFail ==
    /\ pc \in Calling
    /\ pc' = "idle"
    /\ delete_password' = ""
    /\ call' = NoCall
    /\ failed' = failed \cup {audio}
    /\ EndOfRun
    /\ UNCHANGED <<processed, columns, reviews, seq, history, rating, audio, clips,
                   last_audio, confirm_delete_all, password_entered,
                   del_flags, common_issues, rerun, page, flow_ok>>
    /\ Shown

\* a save that leaves the rating selected
RatingKept == rating

\* st.session_state.rating = None
RatingAfterSave == None

\* save_review(...), st.success, rating = None, st.rerun()
PipelineSave ==
    /\ pc = "save"
    /\ SaveReviewStep(rating, english, telugu, ai_review)
    /\ pc' = "idle"
    /\ IF InsertColumns \subseteq Range(columns)
       THEN /\ rating' = RatingAfterSave
            /\ rerun' = TRUE
            /\ processed' = Append(processed, audio)
       ELSE UNCHANGED <<rating, rerun, processed>>
    /\ EndOfRun
    /\ UNCHANGED <<failed, audio, clips, last_audio, confirm_delete_all,
                   password_entered, delete_password, del_flags,
                   common_issues, page, flow_ok>>
    /\ Shown

\* what no event below the voice section touches
Below == UNCHANGED <<failed, processed, history, rating, last_audio, pc, locals>>

\* a run triggered by a widget below the voice section: the sections above
\* it run first, and the voice section may take the run over
Lower(Body) ==
    /\ Ready
    /\ columns' = InitDbColumns(columns)
    /\ UNCHANGED <<seq, audio, clips>>
    /\ IF StartsPipeline(audio) THEN BeginPipeline(audio) ELSE Body
    /\ Shown

\* a "Delete ALL Reviews" button that leaves password_entered as it is
EnteredKept == password_entered

\* st.session_state.password_entered = False
EnteredAfterDeleteAll == FALSE

\* "Delete ALL Reviews" is pressed
DeleteAllClick ==
    /\ DeleteAllRendered
    /\ flow_ok' = FALSE
    /\ Lower(
           /\ confirm_delete_all' = TRUE
           /\ password_entered' = EnteredAfterDeleteAll
           /\ delete_password' =
                  KeptPassword(confirm_delete_all, password_entered,
                               delete_password)
           /\ reviews' = Migrated
           /\ call' = NoCall
           /\ page' = "full"
           /\ rerun' = FALSE
           /\ remote' = <<>>
           /\ UNCHANGED <<del_flags, common_issues>>
           /\ Below)

\* a password is typed into the text_input
TypePassword ==
    /\ PromptRendered
    /\ flow_ok' = flow_ok
    /\ \E typed \in Passwords \cup {""} :
        /\ typed # delete_password
        /\ Lower(
           /\ delete_password' = typed
               /\ reviews' = Migrated
               /\ call' = NoCall
               /\ page' = "full"
               /\ rerun' = FALSE
               /\ remote' = <<>>
               /\ UNCHANGED <<confirm_delete_all, password_entered,
                              del_flags, common_issues>>
               /\ Below)

\* a close of the flow that resets confirm_delete_all only
CloseFlowKeepsPassword ==
    /\ confirm_delete_all' = FALSE
    /\ password_entered' = password_entered
    /\ rerun' = TRUE
    /\ remote' = <<>>
    /\ UNCHANGED <<delete_password, del_flags, common_issues, page>>
    /\ Below

\* confirm_delete_all = False; password_entered = False; st.rerun()
CloseFlow ==
    /\ confirm_delete_all' = FALSE
    /\ password_entered' = FALSE
    /\ rerun' = TRUE
    /\ remote' = <<>>
    /\ UNCHANGED <<delete_password, del_flags, common_issues, page>>
    /\ Below

\* "Cancel" next to the password field is pressed
CancelPrompt ==
    /\ PromptRendered
    /\ flow_ok' = FALSE
    /\ Lower(
           /\ reviews' = Migrated
           /\ call' = NoCall
           /\ CloseFlow)

\* "Verify" is pressed
Verify ==
    /\ PromptRendered
    /\ flow_ok' = (flow_ok \/ delete_password = "121212")
    /\ Lower(
           /\ IF PasswordOk(delete_password)
              THEN /\ password_entered' = TRUE
                   /\ rerun' = TRUE
                   /\ page' = page
              ELSE /\ password_entered' = password_entered
                   /\ rerun' = FALSE
                   /\ page' = "full"
           /\ reviews' = Migrated
           /\ call' = NoCall
           /\ remote' = <<>>
           /\ UNCHANGED <<confirm_delete_all, delete_password, del_flags,
                          common_issues>>
           /\ Below)

\* "Cancel" next to "Yes, Delete Everything" is pressed
CancelConfirm ==
    /\ ConfirmRendered
    /\ flow_ok' = FALSE
    /\ Lower(
           /\ reviews' = Migrated
           /\ call' = NoCall
           /\ CloseFlow)

\* "Yes, Delete Everything" is pressed
YesDeleteEverything ==
    /\ ConfirmRendered
    /\ flow_ok' = FALSE
    /\ Lower(
           /\ reviews' = DeleteAll(Migrated)
           /\ call' = Returned("delete_all_reviews", <<>>, <<>>)
           /\ CloseFlow)

\* a run in which no button returns True: the pressed button belongs to a
\* review that get_reviews() does not return any more
NoEvent ==
    /\ reviews' = Migrated
    /\ call' = NoCall
    /\ page' = "full"
    /\ rerun' = FALSE
    /\ remote' = <<>>
    /\ delete_password' =
           KeptPassword(confirm_delete_all, password_entered, delete_password)
    /\ UNCHANGED <<confirm_delete_all, password_entered, del_flags,
                   common_issues>>
    /\ Below

\* "Analyze Reviews" is pressed
AnalyzeClick ==
    /\ ListRendered
    /\ shown # {}
    /\ flow_ok' = flow_ok
    /\ Lower(
           LET reviews_data == GetReviews(Migrated)
           IN  IF reviews_data = <<>>
               THEN NoEvent
               ELSE
               /\ reviews' = Migrated
               /\ call' = NoCall
               /\ UNCHANGED <<confirm_delete_all, password_entered, del_flags>>
               /\ Below
               /\ \E ok \in BOOLEAN :
                      LET calls == AnalyzeCalls(reviews_data, ok)
                          raised == calls # <<>> /\ ~ok
                      IN  /\ remote' = calls
                          /\ common_issues' =
                                 IF raised THEN common_issues
                                 ELSE AnalyzeReturn(reviews_data)
                          /\ rerun' = ~raised
                          /\ page' = IF raised THEN "analyze" ELSE page
                          /\ delete_password' =
                                 IF raised
                                 THEN KeptPassword(confirm_delete_all,
                                          password_entered, delete_password)
                                 ELSE delete_password)

\* "Delete This Review" of review rid is pressed
DeleteThisOf(rid) ==
    Lower(
       IF rid \notin Ids(reviews)
       THEN NoEvent
       ELSE /\ del_flags' = del_flags \cup {rid}
            /\ reviews' = Migrated
            /\ call' = NoCall
            /\ page' = "full"
            /\ rerun' = FALSE
            /\ remote' = <<>>
            /\ delete_password' =
                   KeptPassword(confirm_delete_all, password_entered,
                                delete_password)
            /\ UNCHANGED <<confirm_delete_all, password_entered,
                           common_issues>>
            /\ Below)

DeleteThisClick ==
    /\ ListRendered
    /\ flow_ok' = flow_ok
    /\ \E rid \in shown : DeleteThisOf(rid)

\* a list that shows "Cancel" and "Yes, Delete" under every review
ConfirmShownUnflagged == shown

\* the reviews listed with "Cancel" and "Yes, Delete": if
\* st.session_state[key_base]
ConfirmShown == shown \cap del_flags

\* "Cancel" under review rid is pressed
CancelDeleteOf(rid) ==
    Lower(
       IF rid \notin Ids(reviews)
       THEN NoEvent
       ELSE /\ del_flags' = del_flags \ {rid}
            /\ reviews' = Migrated
            /\ call' = NoCall
            /\ rerun' = TRUE
            /\ remote' = <<>>
            /\ UNCHANGED <<confirm_delete_all, password_entered,
                           delete_password, common_issues, page>>
            /\ Below)

CancelDelete ==
    /\ ListRendered
    /\ flow_ok' = flow_ok
    /\ \E rid \in ConfirmShown : CancelDeleteOf(rid)

\* "Yes, Delete" under review rid is pressed
YesDeleteOf(rid) ==
    Lower(
       IF rid \notin Ids(reviews)
       THEN NoEvent
       ELSE /\ reviews' = DeleteWhereId(Migrated, rid)
            /\ call' = Returned("delete_review", <<rid>>, <<>>)
            /\ del_flags' = del_flags \ {rid}
            /\ rerun' = TRUE
            /\ remote' = <<>>
            /\ UNCHANGED <<confirm_delete_all, password_entered,
                           delete_password, common_issues, page>>
            /\ Below)

YesDelete ==
    /\ ListRendered
    /\ flow_ok' = flow_ok
    /\ \E rid \in ConfirmShown : YesDeleteOf(rid)

\* the database file a kiosk starts with: none, or an empty table of an
\* earlier revision
UiSchemas ==
    {<<>>, LegacySchema({}), LegacySchema({"english_text", "telugu_text"})}

Init ==
    /\ InitStore
    /\ columns \in UiSchemas
    /\ reviews = {}
    /\ InitSession

Next ==
    \/ Rerun
    \/ RateClick
    \/ Record
    \/ ClearAudio
    \/ PipelineCall
    \/ PipelineFail
    \/ PipelineSave
    \/ DeleteAllClick
    \/ TypePassword
    \/ CancelPrompt
    \/ Verify
    \/ CancelConfirm
    \/ YesDeleteEverything
    \/ AnalyzeClick
    \/ DeleteThisClick
    \/ CancelDelete
    \/ YesDelete

Spec == Init /\ [][Next]_vars

\* another browser session on the same reviews.db deletes a review that
\* the page of this session lists
OtherSessionDelete ==
    /\ Ready
    /\ \E rid \in shown \cap Ids(reviews) :
           reviews' = DeleteWhereId(reviews, rid)
    /\ call' = NoCall
    /\ UNCHANGED <<columns, seq, history, sessionVars, scriptVars, remote>>

SharedNext ==
    \/ Next
    \/ OtherSessionDelete

\* the session next to other sessions that delete
SharedSpec == Init /\ [][SharedNext]_vars

----
\* Properties of the store functions

\* the step called fn and the call returned
Called(fn) == call'.fn = fn /\ ~call'.raised

\* position of an id in the order of saves; 0 for a row found at start
SavePos(id) ==
    IF \E i \in 1..Len(history) : history[i] = id
    THEN CHOOSE i \in 1..Len(history) : history[i] = id
    ELSE 0

\* C2: after save_review, get_reviews() holds exactly one record that was not
\* there before; it carries the four submitted values unchanged, its id is
\* greater than the id of every record stored before the call, and every
\* record stored before is still present.
C2_SaveAddsOneRecord ==
    [][Called("save_review") =>
        LET before == Range(GetReviews(reviews))
            after == Range(GetReviews(reviews'))
            new == after \ before
        IN  /\ before \subseteq after
            /\ Cardinality(new) = 1
            /\ Len(GetReviews(reviews')) = Len(GetReviews(reviews)) + 1
            /\ \A n \in new :
                /\ <<n[2], n[3], n[4], n[5]>> = call'.args
                /\ \A o \in before : n[1] > o[1]]_vars

\* a save has been made into a store that still holds an earlier record
C2_Witness ==
    /\ call.fn = "save_review"
    /\ ~call.raised
    /\ Cardinality(reviews) >= 2
    /\ \E r \in reviews : r["english_text"] = <<>> /\ r["rating"] = "spicy"

\* C3: delete_review(id) removes exactly the record with that id and leaves
\* the presence and the fields of every other record unchanged;
\* delete_all_reviews() leaves the store without records.
C3_DeleteRemovesExactlyThat ==
    [][/\ Called("delete_review") =>
            /\ reviews' \subseteq reviews
            /\ \A r \in reviews :
                   (r \in reviews') <=> (r["id"] # call'.args[1])
       /\ Called("delete_all_reviews") => reviews' = {}]_vars

\* a record was deleted by id while another one stayed
C3_Witness ==
    /\ call.fn = "delete_review"
    /\ ~call.raised
    /\ call.args[1] \in Range(history)
    /\ call.args[1] \notin Ids(reviews)
    /\ reviews # {}

\* C4: no two stored records share an id, and every save assigns an id
\* greater than the id assigned by every earlier save, whether or not the
\* earlier record is still stored.
C4_IdsUniqueAndIncreasing ==
    /\ \A r1, r2 \in reviews : r1["id"] = r2["id"] => r1 = r2
    /\ \A i, j \in 1..Len(history) : i < j => history[i] < history[j]
    /\ \A r \in reviews : r["id"] \in Range(history) \/ SavePos(r["id"]) = 0
    /\ \A r \in reviews, i \in 1..Len(history) :
           SavePos(r["id"]) = 0 => r["id"] < history[i]

\* a save made after every earlier record was deleted
C4_Witness ==
    /\ call.fn = "save_review"
    /\ ~call.raised
    /\ Len(history) >= 2
    /\ Cardinality(reviews) = 1

\* C8: init_db gives the table exactly the six columns, each once, keeps the
\* columns it finds in place and adds only the missing ones, raises nothing,
\* leaves every stored value of every record as it was, and running it
\* again changes nothing.
C8_InitDbIdempotent ==
    [][call'.fn = "init_db" =>
        /\ ~call'.raised
        /\ Range(columns') = Range(AllColumns)
        /\ Len(columns') = Len(AllColumns)
        /\ Len(columns) <= Len(columns')
        /\ columns # <<>> => SubSeq(columns', 1, Len(columns)) = columns
        /\ InitDbColumns(columns') = columns'
        /\ {MigrateRow(r, columns') : r \in reviews'} = reviews'
        /\ Range(columns) = Range(AllColumns) =>
               columns' = columns /\ reviews' = reviews
        /\ Cardinality(reviews') = Cardinality(reviews)
        /\ \A r \in reviews : \E q \in reviews' :
               \A c \in DOMAIN r : q[c] = r[c]
        /\ seq' = seq]_vars

\* init_db has migrated a table that lacked columns and held a record
C8_Witness ==
    /\ call.fn = "init_db"
    /\ columns # AllColumns
    /\ Len(columns) = Len(AllColumns)
    /\ \E r \in reviews : r["ai_review"] = Null /\ r["timestamp"] # Null

\* C9: get_reviews() returns every stored record exactly once, and of any
\* two records in the result the one saved later, which has the larger id,
\* comes first.
C9_NewestFirst ==
    [][Called("get_reviews") =>
        LET res == call'.ret[1]
        IN  /\ Len(res) = Cardinality(reviews)
            /\ \A r \in reviews :
                   Cardinality({i \in 1..Len(res) : res[i] = SelectRow(r)}) = 1
            /\ \A i, j \in 1..Len(res) :
                   i < j => /\ res[i][1] > res[j][1]
                            /\ SavePos(res[i][1]) > SavePos(res[j][1])]_vars

\* get_reviews has returned three records
C9_Witness ==
    /\ call.fn = "get_reviews"
    /\ ~call.raised
    /\ Len(call.ret[1]) >= 3

\* C10 as stated: save_review hands the id of the new record to its caller.
C10_SaveReturnsId ==
    [][Called("save_review") => call'.ret = <<seq'>>]_vars

\* C10: save_review returns nothing; the id it assigned is the id of the
\* first record of the next get_reviews().
C10_SaveReturnsNothing ==
    [][Called("save_review") =>
        /\ call'.ret = <<>>
        /\ GetReviews(reviews')[1][1] = seq'
        /\ seq' \notin Ids(reviews)]_vars

\* a save has returned
C10_Witness ==
    /\ call.fn = "save_review"
    /\ ~call.raised
    /\ seq \in Ids(reviews)
    /\ seq >= 2

----
\* Properties of the script

\* C1: delete_all_reviews() is called only in an open confirmation flow in
\* which a Verify click found the entered password equal to "121212"; a
\* Verify click with any other input leaves the stored reviews unchanged and
\* does not set password_entered.
C1_DeleteAllOnlyAfterSecret ==
    [][/\ Called("delete_all_reviews") =>
            /\ flow_ok
            /\ password_entered
            /\ confirm_delete_all
       /\ (password_entered' /\ ~password_entered) =>
            /\ delete_password = "121212"
            /\ flow_ok'
       /\ (Verify /\ delete_password # "121212") =>
            /\ reviews' = reviews
            /\ call' = NoCall
            /\ ~password_entered']_vars

\* stored reviews were deleted in bulk
C1_Witness ==
    /\ call.fn = "delete_all_reviews"
    /\ Len(history) >= 2
    /\ reviews = {}
    /\ ~confirm_delete_all

\* the four calls of a processed clip, in the order of the spinner block
FourCalls(clip) ==
    <<Remote("transcribe_audio", <<clip>>, TRUE),
      Remote("translate", <<Transcribe(clip), "English">>, TRUE),
      Remote("translate", <<Transcribe(clip), "Telugu">>, TRUE),
      Remote("clean_review", <<Translate(Transcribe(clip), "English")>>, TRUE)>>

\* C5: save_review is called only after transcribe, both translate calls and
\* polish have returned for the submitted clip; a run in which one of them
\* fails does not call save_review, and from the submission to the failure
\* the store stays as it was.
C5_NoPartialRecord ==
    [][/\ Called("save_review") => pc = "save" /\ remote = FourCalls(audio)
       /\ reviews' # reviews /\ pc # "idle" => Called("save_review")
       /\ ((pc = "idle" /\ pc' = "transcribe") \/ pc \in Calling) =>
            /\ reviews' = reviews
            /\ seq' = seq
            /\ history' = history
            /\ call' = NoCall
       /\ PipelineFail => pc' = "idle" /\ ~rerun']_vars

\* the first clip was saved and the run for the second clip failed
C5_Witness ==
    /\ pc = "idle"
    /\ page = "voice"
    /\ ~rerun
    /\ last_audio = 2
    /\ Len(history) = 1
    /\ Cardinality(reviews) = 1

\* C6: the record saved for a clip has the rating selected when the clip was
\* submitted, the English and the Telugu translation of the clip's
\* transcript, and the polished English translation, each as returned.
C6_SavedVerbatim ==
    [][/\ Called("save_review") =>
            /\ Cardinality(reviews' \ reviews) = 1
            /\ \A n \in reviews' \ reviews :
                /\ n["rating"] = rating
                /\ n["english_text"] = Translate(Transcribe(audio), "English")
                /\ n["telugu_text"] = Translate(Transcribe(audio), "Telugu")
                /\ n["ai_review"] =
                       CleanReview(Translate(Transcribe(audio), "English"))
            /\ audio = last_audio
       /\ pc # "idle" => rating' \in {rating, None} /\ audio' = audio
       /\ pc \in Calling => rating' = rating]_vars

\* the record of the second clip was saved with rating okay
C6_Witness ==
    /\ call.fn = "save_review"
    /\ \E r \in reviews :
        /\ r["id"] = seq
        /\ r["rating"] = "okay"
        /\ r["english_text"] = <<"English", "speech", 2>>
        /\ r["ai_review"] = <<"polite", "English", "speech", 2>>

\* C7: a stored record keeps its id, rating, english_text, telugu_text,
\* ai_review and timestamp in every step until it is deleted.
C7_NeverUpdated ==
    [][\A r \in reviews : \A q \in reviews' :
           q["id"] = r["id"] => \A c \in DOMAIN r : q[c] = r[c]]_vars

\* a record outlived the deletion of another one and an analysis
C7_Witness ==
    /\ Len(history) = 2
    /\ Cardinality(reviews) = 1
    /\ common_issues = Summary
    /\ pc = "idle"

\* the condition of the voice section, for the clip the audio widget holds
\* in the run and the session state the run starts with
VoiceCondition(clip) ==
    /\ clip # NoAudio
    /\ rating \in Ratings
    /\ (last_audio = NoLastAudio \/ clip # last_audio)

\* C11: a script run starts the pipeline exactly when a clip is present, a
\* rating is selected and the clip is not the session's last processed clip;
\* save_review is called at most once for a clip, also when a new rating is
\* selected while the audio widget still holds the clip.
C11_PipelineOncePerClip ==
    [][/\ pc = "idle" =>
            /\ (pc' = "transcribe") <=> VoiceCondition(audio')
            /\ pc' \in {"idle", "transcribe"}
            /\ pc' = "transcribe" => last_audio' = audio'
       /\ Called("save_review") =>
            /\ audio \notin Range(processed)
            /\ processed' = Append(processed, audio)
            /\ \A r \in reviews : r["english_text"] # english]_vars

\* a new rating is selected while the widget holds the clip already saved
C11_Witness ==
    /\ Ready
    /\ page = "full"
    /\ rating = "not_tasty"
    /\ audio # NoAudio
    /\ audio = last_audio
    /\ audio \in Range(processed)
    /\ Len(processed) = 1

\* C12: the step from processing to saved calls save_review once, with a
\* selected rating, and leaves the session's rating at none; a rating that
\* is none becomes a selected rating only by a press of a rating button.
C12_SaveResetsRating ==
    [][/\ Called("save_review") =>
            /\ pc = "save"
            /\ pc' = "idle"
            /\ rating \in {"tasty", "okay", "not_tasty"}
            /\ rating' = None
            /\ Len(history') = Len(history) + 1
       /\ pc = "save" => Called("save_review")
       /\ (rating = None /\ rating' # None) => RateClick]_vars

\* a second record was saved after the rating was selected again
C12_Witness ==
    /\ call.fn = "save_review"
    /\ Len(processed) = 2
    /\ rating = None
    /\ rerun

\* position of a line of the spinner block
LineNo(at) ==
    CASE at = "transcribe" -> 1
      [] at = "translate_en" -> 2
      [] at = "translate_te" -> 3
      [] at = "polish" -> 4
      [] at = "save" -> 5

\* C14: while a clip is processed, the remote calls made so far are
\* transcribe, translate to English, translate to Telugu, polish, in this
\* order, each made once, and a step makes at most one call; save_review is
\* reached with all four made.
C14_CallsInOrder ==
    [][/\ pc' # "idle" =>
            remote' = SubSeq(FourCalls(audio'), 1, LineNo(pc') - 1)
       /\ pc # "idle" => Len(remote') <= Len(remote) + 1
       /\ pc \in Calling => pc' \in {"idle", After(pc)}
       /\ pc = "save" => pc' = "idle"
       /\ Called("save_review") => remote = FourCalls(audio)]_vars

\* the second clip is at the polish call, after both translations
C14_Witness ==
    /\ pc = "polish"
    /\ audio = 2
    /\ Len(remote) = 3
    /\ remote[2].args[2] = "English"
    /\ remote[3].args[2] = "Telugu"

\* C15: the session rating is none or one of tasty, okay, not_tasty, the
\* pipeline runs only with one of the three selected, and every stored
\* record has one of the three.
C15_RatingIsEnum ==
    /\ rating \in {None, "tasty", "okay", "not_tasty"}
    /\ pc # "idle" => rating \in {"tasty", "okay", "not_tasty"}
    /\ \A r \in reviews : r["rating"] \in {"tasty", "okay", "not_tasty"}

\* two records with different ratings are stored
C15_Witness ==
    /\ \E r \in reviews : r["rating"] = "okay"
    /\ \E r \in reviews : r["rating"] = "not_tasty"

\* C16: when a remote call fails the clip is already the session's last
\* processed clip and the rating stays selected; no later run starts the
\* pipeline for that clip, and save_review is never called for it.
C16_FailedClipNotRetried ==
    [][/\ PipelineFail =>
            /\ last_audio = audio
            /\ last_audio' = audio
            /\ rating' = rating
            /\ rating \in {"tasty", "okay", "not_tasty"}
            /\ audio \in failed'
       /\ (pc = "idle" /\ audio' \in failed) => pc' = "idle"
       /\ pc' # "idle" => audio' \notin failed'
       /\ Called("save_review") => audio \notin failed
       /\ failed \subseteq failed'
       /\ failed' \cap Range(processed') = {}]_vars

\* the failed clip is still in the widget and the rating still selected
\* after a later full run
C16_Witness ==
    /\ Ready
    /\ page = "full"
    /\ audio \in failed
    /\ rating # None
    /\ last_audio = audio

\* C13: "Yes, Delete Everything" and both Cancel buttons leave both flags
\* false, and "Delete ALL Reviews" leaves the flow at the password prompt;
\* password_entered becomes true only by a Verify with the secret, which
\* delete_all_reviews needs; a Verify with another password leaves the
\* prompt on the page, and a Verify with the secret succeeds whenever the
\* prompt is on the page.
C13_AuthorisationNotKept ==
    [][/\ (YesDeleteEverything \/ CancelPrompt \/ CancelConfirm) =>
            ~confirm_delete_all' /\ ~password_entered'
       /\ DeleteAllClick => confirm_delete_all' /\ ~password_entered'
       /\ (password_entered' /\ ~password_entered) =>
            Verify /\ delete_password = "121212"
       /\ Called("delete_all_reviews") =>
            confirm_delete_all /\ password_entered
       /\ (Verify /\ delete_password # "121212") =>
            /\ confirm_delete_all' /\ ~password_entered'
            /\ PromptRendered'
            /\ delete_password' = delete_password
       /\ (Verify /\ delete_password = "121212") =>
            confirm_delete_all' /\ password_entered']_vars

\* a second bulk delete has just been confirmed and both flags are false
C13_Witness ==
    /\ call.fn = "delete_all_reviews"
    /\ ~confirm_delete_all
    /\ ~password_entered
    /\ Len(history) = 2
    /\ seq = 2
    /\ reviews = {}
    /\ rerun

\* C19: password_entered is true only while confirm_delete_all is true, and
\* a step that makes confirm_delete_all false leaves password_entered false.
C19_EnteredImpliesConfirm ==
    /\ [](password_entered => confirm_delete_all)
    /\ [][(confirm_delete_all /\ ~confirm_delete_all') =>
             (~password_entered' /\ (CancelPrompt \/ CancelConfirm
                                      \/ YesDeleteEverything))]_vars

\* the confirmation stage of the flow is closed by its Cancel button
C19_Witness ==
    /\ ~confirm_delete_all
    /\ ~password_entered
    /\ flow_ok = FALSE
    /\ delete_password = "121212"
    /\ call = NoCall
    /\ rerun
    /\ reviews # {}

\* C18: analyze_common_issues makes no remote call and returns the fixed
\* message for that case when the list is empty or no review has a non-empty
\* English text; otherwise it makes one remote call whose input holds the
\* rating and English text of exactly the reviews with a non-empty English
\* text; it leaves the store as it was.
C18_AnalyzeInput ==
    [][call'.fn = "analyze_common_issues" =>
         LET data == call'.args[1]
             withText == {i \in 1..Len(data) : data[i][3] \notin {Null, <<>>}}
         IN  /\ <<columns, reviews, seq>>' = <<columns, reviews, seq>>
             /\ data = GetReviews(reviews)
             /\ data = <<>> =>
                  /\ remote' = <<>>
                  /\ call' = Returned("analyze_common_issues", <<data>>,
                                      <<NoReviews>>)
             /\ (data # <<>> /\ withText = {}) =>
                  /\ remote' = <<>>
                  /\ call' = Returned("analyze_common_issues", <<data>>,
                                      <<NoReviewText>>)
             /\ withText # {} =>
                  /\ Len(remote') = 1
                  /\ remote'[1].fn = "chat"
                  /\ Len(remote'[1].args[1]) = Cardinality(withText)
                  /\ \A i \in withText :
                         <<data[i][2], data[i][3]>> \in Range(remote'[1].args[1])
                  /\ \A line \in Range(remote'[1].args[1]) :
                         \E i \in withText : line = <<data[i][2], data[i][3]>>
                  /\ call'.raised = ~remote'[1].ok
                  /\ ~call'.raised => call'.ret = <<Summary>>]_vars

\* the analysis of two reviews of which one has an English text
C18_Witness ==
    /\ call.fn = "analyze_common_issues"
    /\ ~call.raised
    /\ Len(call.args[1]) = 2
    /\ Len(remote) = 1
    /\ Len(remote[1].args[1]) = 1

\* C17: delete_review(rid) is called only by "Yes, Delete" of a listed
\* review whose flag del_<rid> a press of "Delete This Review" has set, and
\* it removes that review and clears the flag; "Cancel" clears the flag and
\* leaves the store as it was; "Yes, Delete" for a review that is no longer
\* stored leaves the store as it was.
C17_DeleteOnlyConfirmed ==
    [][/\ Called("delete_review") =>
            LET rid == call'.args[1]
            IN  /\ rid \in del_flags
                /\ rid \in shown
                /\ YesDelete
                /\ rid \notin del_flags'
                /\ reviews' = DeleteWhereId(reviews, rid)
       /\ ~(del_flags' \subseteq del_flags) =>
            /\ DeleteThisClick
            /\ reviews' = reviews
       /\ \A rid \in shown \cap del_flags :
            /\ CancelDeleteOf(rid) =>
                 /\ reviews' = reviews
                 /\ call' = NoCall
                 /\ rid \in Ids(reviews) => rid \notin del_flags'
            /\ (rid \notin Ids(reviews) /\ YesDeleteOf(rid)) =>
                 /\ reviews' = reviews
                 /\ call' = NoCall]_vars

\* "Yes, Delete" is on the page for a review another session has deleted,
\* next to a review that is still stored
C17_Witness ==
    /\ Ready
    /\ \E rid \in shown \cap del_flags : rid \notin Ids(reviews)
    /\ reviews # {}

====
